---- MODULE Spec2Model ----
(***************************************************************************)
(* pngme: PNG chunk type codes, chunks, the chunk container and the four   *)
(* CLI commands, as state machines over byte sequences.                    *)
(*                                                                         *)
(* A byte is a number 0..255, a byte slice a sequence of bytes.  A Rust    *)
(* string is a sequence of Unicode code points; its byte length and bytes  *)
(* are those of its UTF-8 encoding.  A u32 is kept as two 16-bit halves    *)
(* [hi, lo] because the model checker's integers are 32-bit signed.        *)
(*                                                                         *)
(* Four specifications share the module, one per layer: SpecType           *)
(* (chunk_type.rs), SpecChunk (chunk.rs), SpecPng (the container) and      *)
(* SpecCli (commands.rs).  Each leaves the other layers' variables idle.   *)
(***************************************************************************)
EXTENDS Integers, Sequences, FiniteSets, TLC

VARIABLES
    tInput,     \* ChunkType: the input handed to from_str / try_from
    tResult,    \* ChunkType: Result<ChunkType, ChunkTypeError> of that call
    tFlags,     \* ChunkType: values returned by the is_* methods so far
    tBytes,     \* ChunkType: value returned by bytes(), <<>> before the call
    cInput,     \* Chunk: the arguments of new, or the slice given to try_from
    cChunk,     \* Chunk: Result of the last new / try_from
    cBuilt,     \* Chunk: how cChunk was built: "none", "new" or "try_from"
    cSlice,     \* Chunk: the slice the last try_from was called on
    cBytes,     \* Chunk: the bytes returned by the last as_bytes
    cEncoded,   \* Chunk: the chunk cBytes was produced from, and how built
    cOp,        \* Chunk: the last operation
    pInput,     \* Png: the byte slice handed to Png::try_from
    pPng,       \* Png: Result of Png::try_from, then the container as mutated
    pFresh,     \* Png: TRUE while the container is as try_from returned it
    pBefore,    \* Png: the chunk sequence before the last append / remove
    pArg,       \* Png: the chunk_type text of the last remove_first_chunk
    pRemoved,   \* Png: Result of the last remove_first_chunk
    pOut,       \* Png: the bytes returned by the last as_bytes
    pOp,        \* Png: the last operation
    xCmd,       \* CLI: the parsed command line (args::Commands)
    xPc,        \* CLI: the statement of the command function to run next
    xDisk,      \* CLI: the file system, path -> contents
    xDisk0,     \* CLI: the file system when the command started
    xBytes,     \* CLI: local `bytes`
    xPng,       \* CLI: local `png` (its chunk sequence)
    xType,      \* CLI: the ChunkType parsed by from_str in encode
    xChunk,     \* CLI: local `chunk` of decode
    xRet,       \* CLI: the command's return value, "running" until it returns
    xLog        \* CLI: the calls made so far, in order, with their outcome

typeVars == <<tInput, tResult, tFlags, tBytes>>

chunkVars == <<cInput, cChunk, cBuilt, cSlice, cBytes, cEncoded, cOp>>

pngVars == <<pInput, pPng, pFresh, pBefore, pArg, pRemoved, pOut, pOp>>

cliVars == <<xCmd, xPc, xDisk, xDisk0, xBytes, xPng, xType, xChunk, xRet, xLog>>

vars == <<typeVars, chunkVars, pngVars, cliVars>>

----------------------------------------------------------------------------
(* Bounds of the model *)

\* longest string handed to ChunkType::from_str, in characters
MaxStrLen == 5

\* longest payload of the chunks given to Chunk::new and Chunk::try_from
MaxDataLen == 2

\* most chunk records in a file handed to Png::try_from
MaxFileChunks == 2

\* append_chunk is not called on a container of this many chunks
MaxChunks == 3

----------------------------------------------------------------------------
(* All sequences over S of length at most n *)

RECURSIVE SeqsUpTo(_, _)
SeqsUpTo(S, n) ==
    IF n = 0 THEN {<<>>}
    ELSE LET shorter == SeqsUpTo(S, n - 1)
         IN  shorter \cup {Append(s, x) : s \in shorter, x \in S}

----------------------------------------------------------------------------
(* Bit operations on naturals *)

\* bit i of a AND bit i of b, in place
AndBit(a, b, i) == (((a \div (2 ^ i)) % 2) * ((b \div (2 ^ i)) % 2)) * (2 ^ i)

\* a & b on u8
BitAnd(a, b) ==
    AndBit(a, b, 0) + AndBit(a, b, 1) + AndBit(a, b, 2) + AndBit(a, b, 3)
    + AndBit(a, b, 4) + AndBit(a, b, 5) + AndBit(a, b, 6) + AndBit(a, b, 7)

\* bit i of a XOR bit i of b, in place
XorBit(a, b, i) == (((a \div (2 ^ i)) + (b \div (2 ^ i))) % 2) * (2 ^ i)

\* a ^ b on 16 bits
BitXor(a, b) ==
    XorBit(a, b, 0) + XorBit(a, b, 1) + XorBit(a, b, 2) + XorBit(a, b, 3)
    + XorBit(a, b, 4) + XorBit(a, b, 5) + XorBit(a, b, 6) + XorBit(a, b, 7)
    + XorBit(a, b, 8) + XorBit(a, b, 9) + XorBit(a, b, 10) + XorBit(a, b, 11)
    + XorBit(a, b, 12) + XorBit(a, b, 13) + XorBit(a, b, 14) + XorBit(a, b, 15)

\* 1 << n on a u8
Shl1(n) == (2 ^ n) % 256

----------------------------------------------------------------------------
(* &str: sequences of code points, UTF-8 encoded *)

\* UTF-8 encoding of one char
Utf8Char(c) ==
    IF c < 128 THEN <<c>>
    ELSE IF c < 2048 THEN <<192 + (c \div 64), 128 + (c % 64)>>
    ELSE IF c < 65536
         THEN <<224 + (c \div 4096), 128 + ((c \div 64) % 64), 128 + (c % 64)>>
    ELSE <<240 + (c \div 262144), 128 + ((c \div 4096) % 64),
           128 + ((c \div 64) % 64), 128 + (c % 64)>>

\* str::as_bytes
RECURSIVE StrAsBytes(_)
StrAsBytes(s) ==
    IF s = <<>> THEN <<>> ELSE Utf8Char(Head(s)) \o StrAsBytes(Tail(s))

\* str::len: the length in bytes, not in chars
StrLen(s) == Len(StrAsBytes(s))

\* char::is_ascii_alphabetic
IsAsciiAlphabetic(c) == (c >= 65 /\ c <= 90) \/ (c >= 97 /\ c <= 122)

----------------------------------------------------------------------------
(* chunk_type.rs *)

NoType == <<>>

TypeOk(b)   == [ok |-> TRUE,  v |-> b,      err |-> "none"]
TypeErr(e)  == [ok |-> FALSE, v |-> NoType, err |-> e]
NoResult    == [ok |-> FALSE, v |-> NoType, err |-> "none"]

\* impl TryFrom<[u8; 4]> for ChunkType
ChunkTypeTryFrom(bytes) == TypeOk(bytes)

\* impl FromStr for ChunkType
ChunkTypeFromStr(s) ==
    IF StrLen(s) # 4 THEN TypeErr("IncorrectLength")
    ELSE IF \E i \in 1..Len(s) : ~IsAsciiAlphabetic(s[i])
         THEN TypeErr("NotAlpabetical")
    ELSE TypeOk(<<StrAsBytes(s)[1], StrAsBytes(s)[2],
                  StrAsBytes(s)[3], StrAsBytes(s)[4]>>)

\* ChunkType::bytes
ChunkTypeBytes(t) == t

CRITICAL_CHUNK_BIT == 5
PUBLIC_CHUNK_BIT   == 5
RESERVED_CHUNK_BIT == 5
SAFE_CHUNK_BIT     == 5

is_critical(t) ==
    LET mask == Shl1(CRITICAL_CHUNK_BIT)
    IN  IF BitAnd(t[1], mask) = 0 THEN TRUE ELSE FALSE

is_public(t) ==
    LET mask == Shl1(PUBLIC_CHUNK_BIT)
    IN  IF BitAnd(t[2], mask) = 0 THEN TRUE ELSE FALSE

is_reserved_bit_valid(t) ==
    LET mask == Shl1(RESERVED_CHUNK_BIT)
    IN  IF BitAnd(t[3], mask) = 0 THEN TRUE ELSE FALSE

\* is_safe_to_copy with the polarity of the other three tests
is_safe_to_copy_inverted(t) ==
    LET mask == Shl1(SAFE_CHUNK_BIT)
    IN  IF BitAnd(t[4], mask) = 0 THEN TRUE ELSE FALSE

is_safe_to_copy(t) ==
    LET mask == Shl1(SAFE_CHUNK_BIT)
    IN  IF BitAnd(t[4], mask) = 0 THEN FALSE ELSE TRUE

is_valid(t) == is_reserved_bit_valid(t)

\* no is_* method called yet: a function with an empty domain
NoFlags == [n \in {} |-> FALSE]

\* the flags f with the value b recorded for the method n
SetFlag(f, n, b) == (n :> b) @@ f

\* the four bytes taken as chars one by one, without the lossy replacement
ChunkTypeToStringRaw(t) == [i \in 1..Len(t) |-> t[i]]

\* impl Display for ChunkType: String::from_utf8_lossy of the four bytes.
\* Bytes below 0x80 are the ASCII char; 0xF8..0xFF never occur in UTF-8 and
\* each becomes U+FFFD.  The model's type bytes are of these two kinds.
ChunkTypeToString(t) ==
    [i \in 1..Len(t) |-> IF t[i] < 128 THEN t[i] ELSE 65533]

----------------------------------------------------------------------------
(* u32 as two 16-bit halves *)

U32(h, l) == [hi |-> h, lo |-> l]

\* usize as u32 (the model's lengths are far below 2^31)
AsU32(n) == U32((n \div 65536) % 65536, n % 65536)

\* u32::from_be_bytes
from_be_bytes(b) == U32(b[1] * 256 + b[2], b[3] * 256 + b[4])

\* u32::to_be_bytes
to_be_bytes(u) == <<u.hi \div 256, u.hi % 256, u.lo \div 256, u.lo % 256>>

U32Xor(a, b) == U32(BitXor(a.hi, b.hi), BitXor(a.lo, b.lo))

\* u >> 1
U32Shr1(u) == U32(u.hi \div 2, (u.lo \div 2) + (u.hi % 2) * 32768)

----------------------------------------------------------------------------
(* crc crate: Crc::<u32>::new(&CRC_32_ISO_HDLC).checksum *)

\* CRC_32_ISO_HDLC: poly 0x04C11DB7 reflected (0xEDB88320), init and xorout
\* 0xFFFFFFFF, input and output reflected
CrcPolyReflected == U32(60856, 33568)
CrcAllOnes       == U32(65535, 65535)

\* one bit of the reflected algorithm: shift right, xor the polynomial in
\* when the bit shifted out was set
CrcBit(c) ==
    IF c.lo % 2 = 1 THEN U32Xor(U32Shr1(c), CrcPolyReflected) ELSE U32Shr1(c)

\* one input byte: xor it into the low byte, then eight bits
CrcByte(c, b) ==
    CrcBit(CrcBit(CrcBit(CrcBit(CrcBit(CrcBit(CrcBit(CrcBit(
        U32(c.hi, BitXor(c.lo, b))))))))))

\* the register after bytes[i..]; the test on c.lo is never true and makes
\* the register a value before the next byte is taken
RECURSIVE CrcUpdate(_, _, _)
CrcUpdate(c, bytes, i) ==
    IF i > Len(bytes) \/ c.lo < 0 THEN c
    ELSE CrcUpdate(CrcByte(c, bytes[i]), bytes, i + 1)

checksum(bytes) == U32Xor(CrcUpdate(CrcAllOnes, bytes, 1), CrcAllOnes)

----------------------------------------------------------------------------
(* chunk.rs *)

MkChunk(l, t, d, c) ==
    [length |-> l, chunk_type |-> t, chunk_data |-> d, crc |-> c]

NoChunk == MkChunk(U32(0, 0), NoType, <<>>, U32(0, 0))

ChunkOk(c) ==
    [ok |-> TRUE, c |-> c, err |-> "none",
     got |-> U32(0, 0), expected |-> U32(0, 0)]
ChunkErrInvalidLength ==
    [ok |-> FALSE, c |-> NoChunk, err |-> "InvalidLength",
     got |-> U32(0, 0), expected |-> U32(0, 0)]
ChunkErrInvalidCrc(g, e) ==
    [ok |-> FALSE, c |-> NoChunk, err |-> "InvalidCrc",
     got |-> g, expected |-> e]
NoChunkResult ==
    [ok |-> FALSE, c |-> NoChunk, err |-> "none",
     got |-> U32(0, 0), expected |-> U32(0, 0)]

\* the first n items of a sequence, fewer when it is shorter (Iterator::take)
Take(s, n) == SubSeq(s, 1, IF n < Len(s) THEN n ELSE Len(s))

\* what the iterator has left after n items were taken
Drop(s, n) == SubSeq(s, (IF n < Len(s) THEN n ELSE Len(s)) + 1, Len(s))

\* try_from without the comparison of the supplied and the real crc
ChunkTryFromUnchecked(value) ==
    IF Len(value) < 12 THEN ChunkErrInvalidLength
    ELSE LET length       == from_be_bytes(Take(value, 4))
             rest1        == Drop(value, 4)
             chunk_type   == ChunkTypeTryFrom(Take(rest1, 4)).v
             rest2        == Drop(rest1, 4)
             chunk_data   == Take(rest2, Len(value) - 12)
             rest3        == Drop(rest2, Len(value) - 12)
             supplied_crc == from_be_bytes(Take(rest3, 4))
         IN  ChunkOk(MkChunk(length, chunk_type, chunk_data, supplied_crc))

\* impl TryFrom<&[u8]> for Chunk
ChunkTryFrom(value) ==
    IF Len(value) < 12 THEN ChunkErrInvalidLength
    ELSE LET length       == from_be_bytes(Take(value, 4))
             rest1        == Drop(value, 4)
             chunk_type   == ChunkTypeTryFrom(Take(rest1, 4)).v
             rest2        == Drop(rest1, 4)
             chunk_data   == Take(rest2, Len(value) - 12)
             rest3        == Drop(rest2, Len(value) - 12)
             supplied_crc == from_be_bytes(Take(rest3, 4))
             real_crc     == checksum(ChunkTypeBytes(chunk_type) \o chunk_data)
         IN  IF supplied_crc # real_crc
             THEN ChunkErrInvalidCrc(supplied_crc, real_crc)
             ELSE ChunkOk(MkChunk(length, chunk_type, chunk_data, supplied_crc))

\* new with the crc taken over the data alone, the type code left out
ChunkNewCrcOfData(chunk_type, data) ==
    MkChunk(AsU32(Len(data)), chunk_type, data, checksum(data))

\* Chunk::new
ChunkNew(chunk_type, data) ==
    MkChunk(AsU32(Len(data)), chunk_type, data,
            checksum(ChunkTypeBytes(chunk_type) \o data))

\* u32::to_le_bytes
to_le_bytes(u) == <<u.lo % 256, u.lo \div 256, u.hi % 256, u.hi \div 256>>

\* as_bytes with the two integers in little-endian order
ChunkAsBytesLe(c) ==
    to_le_bytes(c.length) \o ChunkTypeBytes(c.chunk_type)
        \o c.chunk_data \o to_le_bytes(c.crc)

\* as_bytes with the length field recomputed from the data
ChunkAsBytesLenOfData(c) ==
    to_be_bytes(AsU32(Len(c.chunk_data))) \o ChunkTypeBytes(c.chunk_type)
        \o c.chunk_data \o to_be_bytes(c.crc)

\* Chunk::as_bytes
ChunkAsBytes(c) ==
    to_be_bytes(c.length) \o ChunkTypeBytes(c.chunk_type)
        \o c.chunk_data \o to_be_bytes(c.crc)


\* a continuation byte of UTF-8
IsUtf8Cont(b) == b >= 128 /\ b <= 191

\* String::from_utf8 succeeds on these bytes
RECURSIVE IsUtf8(_)
IsUtf8(s) ==
    IF s = <<>> THEN TRUE
    ELSE LET b == s[1]
             n == Len(s)
         IN  IF b < 128 THEN IsUtf8(Tail(s))
             ELSE IF b >= 194 /\ b <= 223
                  THEN n >= 2 /\ IsUtf8Cont(s[2]) /\ IsUtf8(SubSeq(s, 3, n))
             ELSE IF b >= 224 /\ b <= 239
                  THEN /\ n >= 3
                       /\ IsUtf8Cont(s[2]) /\ IsUtf8Cont(s[3])
                       /\ (b = 224 => s[2] >= 160)
                       /\ (b = 237 => s[2] <= 159)
                       /\ IsUtf8(SubSeq(s, 4, n))
             ELSE IF b >= 240 /\ b <= 244
                  THEN /\ n >= 4
                       /\ IsUtf8Cont(s[2]) /\ IsUtf8Cont(s[3]) /\ IsUtf8Cont(s[4])
                       /\ (b = 240 => s[2] >= 144)
                       /\ (b = 244 => s[2] <= 143)
                       /\ IsUtf8(SubSeq(s, 5, n))
             ELSE FALSE

\* Chunk::data_as_string returns Ok
DataAsStringOk(c) == IsUtf8(c.chunk_data)

----------------------------------------------------------------------------
(* The container Png (png.rs), after the specification's section 4.3 *)

\* the fixed 8-byte file signature
STANDARD_HEADER == <<137, 80, 78, 71, 13, 10, 26, 10>>

PngOk(chunks) == [ok |-> TRUE,  chunks |-> chunks, err |-> "none"]
PngErr(e)     == [ok |-> FALSE, chunks |-> <<>>,   err |-> e]
NoPng         == [ok |-> FALSE, chunks |-> <<>>,   err |-> "none"]

\* the chunk records after the signature: one Chunk is decoded from the 12 +
\* length bytes at the cursor, the cursor advances by 12 + that chunk's
\* length, until the buffer is exhausted.  A record of fewer than 12 bytes,
\* or one whose declared length exceeds the bytes that remain, is an error.
\* (The model's buffers are far shorter than 2^16 bytes.)
RECURSIVE PngDecodeChunks(_, _)
PngDecodeChunks(rest, chunks) ==
    IF rest = <<>> THEN PngOk(chunks)
    ELSE IF Len(rest) < 12 THEN PngErr("InvalidLength")
    ELSE LET length == from_be_bytes(Take(rest, 4))
         IN  IF length.hi > 0 \/ 12 + length.lo > Len(rest)
             THEN PngErr("InvalidLength")
             ELSE LET r == ChunkTryFrom(Take(rest, 12 + length.lo))
                  IN  IF ~r.ok THEN PngErr(r.err)
                      ELSE PngDecodeChunks(Drop(rest, 12 + r.c.length.lo),
                                           Append(chunks, r.c))

\* impl TryFrom<&[u8]> for Png
PngTryFrom(bytes) ==
    IF Len(bytes) < 8 THEN PngErr("InvalidLength")
    ELSE IF Take(bytes, 8) # STANDARD_HEADER THEN PngErr("InvalidSignature")
    ELSE PngDecodeChunks(Drop(bytes, 8), <<>>)

\* Png::append_chunk
PngAppendChunk(chunks, c) == Append(chunks, c)

\* the index of the first chunk whose type code, as text, is chunk_type;
\* 0 when there is none
PngFindFirst(chunks, chunk_type) ==
    LET found == {i \in 1..Len(chunks) :
                    ChunkTypeToString(chunks[i].chunk_type) = chunk_type}
    IN  IF found = {} THEN 0
        ELSE CHOOSE i \in found : \A j \in found : i <= j

RemoveOk(c, chunks) ==
    [ok |-> TRUE,  chunk |-> c, chunks |-> chunks, err |-> "none"]
RemoveErr(chunks) ==
    [ok |-> FALSE, chunk |-> NoChunk, chunks |-> chunks, err |-> "ChunkNotFound"]
NoRemoved ==
    [ok |-> FALSE, chunk |-> NoChunk, chunks |-> <<>>, err |-> "none"]

\* Png::remove_first_chunk: the chunk removed and the sequence left
PngRemoveFirstChunk(chunks, chunk_type) ==
    LET i == PngFindFirst(chunks, chunk_type)
    IN  IF i = 0 THEN RemoveErr(chunks)
        ELSE RemoveOk(chunks[i],
                      SubSeq(chunks, 1, i - 1) \o SubSeq(chunks, i + 1, Len(chunks)))

RECURSIVE ConcatChunks(_)
ConcatChunks(chunks) ==
    IF chunks = <<>> THEN <<>>
    ELSE ChunkAsBytes(Head(chunks)) \o ConcatChunks(Tail(chunks))

\* Png::as_bytes
PngAsBytes(chunks) == STANDARD_HEADER \o ConcatChunks(chunks)

----------------------------------------------------------------------------
(* Inputs *)

\* chars of the strings given to from_str: 'R', 'u', '1' and U+00E9, which
\* takes two bytes in UTF-8
Chars == {82, 117, 49, 233}

Strings == SeqsUpTo(Chars, MaxStrLen)

\* 'R' and 'u' (bit 5 clear and set), 0x00 and 0xFF (no letters, clear and set)
RawBytes == {82, 117, 0, 255}

RawTypes == {<<a, b, c, d>> : a \in RawBytes, b \in RawBytes,
                              c \in RawBytes, d \in RawBytes}

TypeInputs == {[kind |-> "str", v |-> s] : s \in Strings}
              \cup {[kind |-> "bytes", v |-> b] : b \in RawTypes}

\* "RuSt", "ruSt" and the non-letter code FF 00 53 FE
ChunkTypes == {<<82, 117, 83, 116>>, <<114, 117, 83, 116>>, <<255, 0, 83, 254>>}

DataBytes == {0, 255}

Datas == SeqsUpTo(DataBytes, MaxDataLen)

\* length fields: every count up to one more than the longest payload, and
\* 2^24, which sets the most significant byte
LengthFields == {to_be_bytes(AsU32(n)) : n \in 0..(MaxDataLen + 1)}
                \cup {<<1, 0, 0, 0>>}

\* the right crc field of a record, and one that is off by one (as in
\* test_invalid_chunk_from_bytes)
CrcFields(t, d) ==
    LET good == to_be_bytes(checksum(t \o d))
    IN  {good, [good EXCEPT ![4] = (good[4] + 255) % 256]}

\* slices of 12 bytes and more: any length field, type, payload, crc field
Records == UNION {UNION {{l \o t \o d \o c : l \in LengthFields,
                                              c \in CrcFields(t, d)}
                         : d \in Datas} : t \in ChunkTypes}

\* slices of fewer than 12 bytes
ShortSlices == {SubSeq(r, 1, n) : r \in Records, n \in 0..11}

ChunkInputs ==
    {[kind |-> "new", t |-> t, d |-> d, v |-> <<>>]
        : t \in ChunkTypes, d \in Datas}
    \cup {[kind |-> "slice", t |-> NoType, d |-> <<>>, v |-> v]
        : v \in Records \cup ShortSlices}

NotEncoded == [c |-> NoChunk, built |-> "none"]

\* type codes of the chunks in files: "RuSt" and FF 00 53 FE
FileTypes == {<<82, 117, 83, 116>>, <<255, 0, 83, 254>>}

\* payloads of the chunks in files and of the chunks appended: none, a NUL,
\* and a byte that is no UTF-8
FileDatas == {<<>>, <<0>>, <<255>>}

\* chunk records of files: the declared length right, too small or too
\* large by one; the crc right or off by one
FileRecords ==
    UNION {UNION {{to_be_bytes(AsU32(n)) \o t \o d \o c
                      : n \in 0..(Len(d) + 1), c \in CrcFields(t, d)}
                  : d \in FileDatas} : t \in FileTypes}

RECURSIVE Concat(_)
Concat(ss) == IF ss = <<>> THEN <<>> ELSE Head(ss) \o Concat(Tail(ss))

\* files: the signature and up to MaxFileChunks records; a prefix of the
\* signature; a wrong signature; a record cut short
FileInputs ==
    {STANDARD_HEADER \o Concat(rs) : rs \in SeqsUpTo(FileRecords, MaxFileChunks)}
    \cup {SubSeq(STANDARD_HEADER, 1, n) : n \in 0..7}
    \cup {<<0>> \o Tail(STANDARD_HEADER) \o r : r \in FileRecords}
    \cup {STANDARD_HEADER \o SubSeq(r, 1, 11) : r \in FileRecords}

\* the chunks append_chunk is given
NewChunks == {ChunkNew(t, d) : t \in FileTypes, d \in FileDatas}

\* chunk_type arguments: "RuSt", "ruSt", the text FF 00 53 FE displays as,
\* "Ru1t" and "RuS"
TypeTexts == {<<82, 117, 83, 116>>, <<114, 117, 83, 116>>,
              <<65533, 0, 83, 65533>>, <<82, 117, 49, 116>>, <<82, 117, 83>>}

----------------------------------------------------------------------------
(* Idle values of each layer's variables *)

TypeIdle ==
    /\ tResult = NoResult
    /\ tFlags = NoFlags
    /\ tBytes = <<>>

ChunkIdle ==
    /\ cChunk = NoChunkResult
    /\ cBuilt = "none"
    /\ cSlice = <<>>
    /\ cBytes = <<>>
    /\ cEncoded = NotEncoded
    /\ cOp = "init"

PngIdle ==
    /\ pPng = NoPng
    /\ pFresh = FALSE
    /\ pBefore = <<>>
    /\ pArg = <<>>
    /\ pRemoved = NoRemoved
    /\ pOut = <<>>
    /\ pOp = "init"

NoInput == [kind |-> "none"]

NoCmd == [name |-> "none"]

CliIdle ==
    /\ xPc = "none"
    /\ xBytes = <<>>
    /\ xPng = <<>>
    /\ xType = NoType
    /\ xChunk = NoChunk
    /\ xRet = "running"
    /\ xLog = <<>>

----------------------------------------------------------------------------
(* ChunkType state machine *)

TypeInit ==
    /\ tInput \in TypeInputs
    /\ TypeIdle
    /\ cInput = NoInput /\ ChunkIdle
    /\ pInput = <<>> /\ PngIdle
    /\ xCmd = NoCmd /\ xDisk = <<>> /\ xDisk0 = <<>> /\ CliIdle

\* ChunkType::from_str(s)
FromStr ==
    /\ tInput.kind = "str"
    /\ tResult' = ChunkTypeFromStr(tInput.v)
    /\ UNCHANGED <<tInput, tFlags, tBytes, chunkVars, pngVars, cliVars>>

\* ChunkType::try_from(bytes)
TryFromArray ==
    /\ tInput.kind = "bytes"
    /\ tResult' = ChunkTypeTryFrom(tInput.v)
    /\ UNCHANGED <<tInput, tFlags, tBytes, chunkVars, pngVars, cliVars>>

Bytes ==
    /\ tResult.ok
    /\ tBytes' = ChunkTypeBytes(tResult.v)
    /\ UNCHANGED <<tInput, tResult, tFlags, chunkVars, pngVars, cliVars>>

IsCritical ==
    /\ tResult.ok
    /\ tFlags' = SetFlag(tFlags, "critical", is_critical(tResult.v))
    /\ UNCHANGED <<tInput, tResult, tBytes, chunkVars, pngVars, cliVars>>

IsPublic ==
    /\ tResult.ok
    /\ tFlags' = SetFlag(tFlags, "public", is_public(tResult.v))
    /\ UNCHANGED <<tInput, tResult, tBytes, chunkVars, pngVars, cliVars>>

IsReservedBitValid ==
    /\ tResult.ok
    /\ tFlags' = SetFlag(tFlags, "reserved", is_reserved_bit_valid(tResult.v))
    /\ UNCHANGED <<tInput, tResult, tBytes, chunkVars, pngVars, cliVars>>

IsSafeToCopy ==
    /\ tResult.ok
    /\ tFlags' = SetFlag(tFlags, "safe", is_safe_to_copy(tResult.v))
    /\ UNCHANGED <<tInput, tResult, tBytes, chunkVars, pngVars, cliVars>>

IsValid ==
    /\ tResult.ok
    /\ tFlags' = SetFlag(tFlags, "valid", is_valid(tResult.v))
    /\ UNCHANGED <<tInput, tResult, tBytes, chunkVars, pngVars, cliVars>>

TypeNext ==
    \/ FromStr
    \/ TryFromArray
    \/ Bytes
    \/ IsCritical
    \/ IsPublic
    \/ IsReservedBitValid
    \/ IsSafeToCopy
    \/ IsValid

SpecType == TypeInit /\ [][TypeNext]_vars

----------------------------------------------------------------------------
(* Chunk state machine *)

ChunkInit ==
    /\ cInput \in ChunkInputs
    /\ ChunkIdle
    /\ tInput = NoInput /\ TypeIdle
    /\ pInput = <<>> /\ PngIdle
    /\ xCmd = NoCmd /\ xDisk = <<>> /\ xDisk0 = <<>> /\ CliIdle

\* Chunk::new(chunk_type, data)
New ==
    /\ cInput.kind = "new"
    /\ cChunk' = ChunkOk(ChunkNew(cInput.t, cInput.d))
    /\ cBuilt' = "new"
    /\ cOp' = "new"
    /\ UNCHANGED <<cInput, cSlice, cBytes, cEncoded, typeVars, pngVars, cliVars>>

\* Chunk::try_from(value) on a slice from outside
TryFrom ==
    /\ cInput.kind = "slice"
    /\ cSlice' = cInput.v
    /\ cChunk' = ChunkTryFrom(cInput.v)
    /\ cBuilt' = "try_from"
    /\ cOp' = "try_from"
    /\ UNCHANGED <<cInput, cBytes, cEncoded, typeVars, pngVars, cliVars>>

\* chunk.as_bytes()
AsBytes ==
    /\ cChunk.ok
    /\ cBytes' = ChunkAsBytes(cChunk.c)
    /\ cEncoded' = [c |-> cChunk.c, built |-> cBuilt]
    /\ cOp' = "as_bytes"
    /\ UNCHANGED <<cInput, cChunk, cBuilt, cSlice, typeVars, pngVars, cliVars>>

\* Chunk::try_from(value) on the bytes as_bytes returned
TryFromBytes ==
    /\ cEncoded # NotEncoded
    /\ cSlice' = cBytes
    /\ cChunk' = ChunkTryFrom(cBytes)
    /\ cBuilt' = "try_from"
    /\ cOp' = "try_from_bytes"
    /\ UNCHANGED <<cInput, cBytes, cEncoded, typeVars, pngVars, cliVars>>

ChunkNext ==
    \/ New
    \/ TryFrom
    \/ AsBytes
    \/ TryFromBytes

SpecChunk == ChunkInit /\ [][ChunkNext]_vars

----------------------------------------------------------------------------
(* Png state machine *)

PngInit ==
    /\ pInput \in FileInputs
    /\ PngIdle
    /\ tInput = NoInput /\ TypeIdle
    /\ cInput = NoInput /\ ChunkIdle
    /\ xCmd = NoCmd /\ xDisk = <<>> /\ xDisk0 = <<>> /\ CliIdle

\* Png::try_from(bytes): the container is built once, from a file's bytes
PngDecode ==
    /\ pOp = "init"
    /\ pPng' = PngTryFrom(pInput)
    /\ pFresh' = pPng'.ok
    /\ pOp' = "try_from"
    /\ UNCHANGED <<pInput, pBefore, pArg, pRemoved, pOut,
                   typeVars, chunkVars, cliVars>>

\* png.append_chunk(chunk); the source bytes are forgotten once the
\* container differs from what was decoded
AppendChunk(c) ==
    /\ pPng.ok
    /\ Len(pPng.chunks) < MaxChunks
    /\ pBefore' = pPng.chunks
    /\ pPng' = [pPng EXCEPT !.chunks = PngAppendChunk(pPng.chunks, c)]
    /\ pFresh' = FALSE
    /\ pInput' = <<>>
    /\ pArg' = <<>>
    /\ pRemoved' = NoRemoved
    /\ pOut' = <<>>
    /\ pOp' = "append_chunk"
    /\ UNCHANGED <<typeVars, chunkVars, cliVars>>

\* png.remove_first_chunk(chunk_type)
RemoveFirstChunk(t) ==
    /\ pPng.ok
    /\ LET r == PngRemoveFirstChunk(pPng.chunks, t)
       IN  /\ pRemoved' = r
           /\ pPng' = [pPng EXCEPT !.chunks = r.chunks]
           /\ pFresh' = (pFresh /\ ~r.ok)
           /\ pInput' = IF pFresh /\ ~r.ok THEN pInput ELSE <<>>
    /\ pBefore' = pPng.chunks
    /\ pArg' = t
    /\ pOut' = <<>>
    /\ pOp' = "remove_first_chunk"
    /\ UNCHANGED <<typeVars, chunkVars, cliVars>>

\* png.as_bytes()
PngEncode ==
    /\ pPng.ok
    /\ pOut' = PngAsBytes(pPng.chunks)
    /\ pOp' = "as_bytes"
    /\ UNCHANGED <<pInput, pPng, pFresh, pBefore, pArg, pRemoved,
                   typeVars, chunkVars, cliVars>>

PngNext ==
    \/ PngDecode
    \/ \E c \in NewChunks : AppendChunk(c)
    \/ \E t \in TypeTexts : RemoveFirstChunk(t)
    \/ PngEncode

SpecPng == PngInit /\ [][PngNext]_vars

----------------------------------------------------------------------------
(* commands.rs: one run of one command *)

File(data) == [exists |-> TRUE, data |-> data]
Missing    == [exists |-> FALSE, data |-> <<>>]

Paths == {"in.png", "out.png"}

\* the files a command may find at its `file` path: every file of
\* FileInputs that has room for at most one record (8 + 12 + 1 bytes), or
\* no file at all
CliFiles == {File(f) : f \in {g \in FileInputs : Len(g) <= 8 + 12 + 1}}
            \cup {Missing}

\* messages: "", "hi" and the one char U+00E9
Messages == {<<>>, <<104, 105>>, <<233>>}

\* args::Commands
Cmds ==
    {[name |-> "encode", file |-> "in.png", chunk_type |-> t, message |-> m,
      output_file |-> o] : t \in TypeTexts, m \in Messages,
                           o \in {"None", "out.png"}}
    \cup {[name |-> n, file |-> "in.png", chunk_type |-> t, message |-> <<>>,
           output_file |-> "None"] : n \in {"decode", "remove"}, t \in TypeTexts}
    \cup {[name |-> "print", file |-> "in.png", chunk_type |-> <<>>,
           message |-> <<>>, output_file |-> "None"]}

CliInit ==
    /\ xCmd \in Cmds
    /\ \E f \in CliFiles : xDisk = [p \in Paths |-> IF p = "in.png" THEN f ELSE Missing]
    /\ xDisk0 = xDisk
    /\ xPc = "read"
    /\ xBytes = <<>>
    /\ xPng = <<>>
    /\ xType = NoType
    /\ xChunk = NoChunk
    /\ xRet = "running"
    /\ xLog = <<>>
    /\ tInput = NoInput /\ TypeIdle
    /\ cInput = NoInput /\ ChunkIdle
    /\ pInput = <<>> /\ PngIdle

\* the command returns r (an Err is returned by the ? operator)
Return(r) ==
    /\ xRet' = r
    /\ xPc' = "done"

\* let bytes = fs::read(file)?;
ReadFile(next) ==
    /\ xPc = "read"
    /\ IF xDisk[xCmd.file].exists
       THEN /\ xBytes' = xDisk[xCmd.file].data
            /\ xLog' = Append(xLog, "read_ok")
            /\ xPc' = next
            /\ xRet' = xRet
       ELSE /\ xBytes' = xBytes
            /\ xLog' = Append(xLog, "read_err")
            /\ Return("Err(io)")
    /\ UNCHANGED <<xCmd, xDisk, xDisk0, xPng, xType, xChunk,
                   typeVars, chunkVars, pngVars>>

\* let mut png = Png::try_from(&bytes[..])?;
DecodePng(next) ==
    /\ xPc = "try_from"
    /\ LET r == PngTryFrom(xBytes)
       IN  IF r.ok
           THEN /\ xPng' = r.chunks
                /\ xLog' = Append(xLog, "try_from_ok")
                /\ xPc' = next
                /\ xRet' = xRet
           ELSE /\ xPng' = xPng
                /\ xLog' = Append(xLog, "try_from_err")
                /\ Return("Err(png)")
    /\ UNCHANGED <<xCmd, xDisk, xDisk0, xBytes, xType, xChunk,
                   typeVars, chunkVars, pngVars>>

\* png.remove_first_chunk(chunk_type)?
RemoveFirst(next) ==
    /\ xPc = "remove_first_chunk"
    /\ LET r == PngRemoveFirstChunk(xPng, xCmd.chunk_type)
       IN  IF r.ok
           THEN /\ xPng' = r.chunks
                /\ xChunk' = r.chunk
                /\ xLog' = Append(xLog, "remove_ok")
                /\ xPc' = next
                /\ xRet' = xRet
           ELSE /\ xPng' = xPng
                /\ xChunk' = xChunk
                /\ xLog' = Append(xLog, "remove_err")
                /\ Return("Err(ChunkNotFound)")
    /\ UNCHANGED <<xCmd, xDisk, xDisk0, xBytes, xType,
                   typeVars, chunkVars, pngVars>>

\* fs::write(path, png.as_bytes())?; Ok(())  -- the write may fail
WriteFile(path) ==
    /\ xPc = "write"
    /\ \/ /\ xDisk' = [xDisk EXCEPT ![path] = File(PngAsBytes(xPng))]
          /\ xLog' = Append(xLog, "write_ok")
          /\ Return("Ok")
       \/ /\ xDisk' = xDisk
          /\ xLog' = Append(xLog, "write_err")
          /\ Return("Err(io)")
    /\ UNCHANGED <<xCmd, xDisk0, xBytes, xPng, xType, xChunk,
                   typeVars, chunkVars, pngVars>>

\* println!("{}", png); Ok(())
Println ==
    /\ xPc = "println"
    /\ xLog' = Append(xLog, "println")
    /\ Return("Ok")
    /\ UNCHANGED <<xCmd, xDisk, xDisk0, xBytes, xPng, xType, xChunk,
                   typeVars, chunkVars, pngVars>>

(* encode *)

EncodeRead == xCmd.name = "encode" /\ ReadFile("try_from")

EncodeTryFrom == xCmd.name = "encode" /\ DecodePng("from_str")

\* ChunkType::from_str(chunk_type)?  -- the argument is evaluated before
\* Chunk::new and append_chunk are called
EncodeFromStr ==
    /\ xCmd.name = "encode"
    /\ xPc = "from_str"
    /\ LET r == ChunkTypeFromStr(xCmd.chunk_type)
       IN  IF r.ok
           THEN /\ xType' = r.v
                /\ xLog' = Append(xLog, "from_str_ok")
                /\ xPc' = "append_chunk"
                /\ xRet' = xRet
           ELSE /\ xType' = xType
                /\ xLog' = Append(xLog, "from_str_err")
                /\ Return("Err(" \o r.err \o ")")
    /\ UNCHANGED <<xCmd, xDisk, xDisk0, xBytes, xPng, xChunk,
                   typeVars, chunkVars, pngVars>>

\* png.append_chunk(Chunk::new(.., message.as_bytes().to_vec()));
\* then match output_file
EncodeAppend ==
    /\ xCmd.name = "encode"
    /\ xPc = "append_chunk"
    /\ xPng' = PngAppendChunk(xPng, ChunkNew(xType, StrAsBytes(xCmd.message)))
    /\ xLog' = Append(xLog, "append_chunk")
    /\ xPc' = IF xCmd.output_file = "None" THEN "println" ELSE "write"
    /\ UNCHANGED <<xCmd, xDisk, xDisk0, xBytes, xType, xChunk, xRet,
                   typeVars, chunkVars, pngVars>>

\* Some(path) => fs::write(path, png.as_bytes())?
EncodeWrite == xCmd.name = "encode" /\ WriteFile(xCmd.output_file)

\* None => println!("{}", png)
EncodePrintln == xCmd.name = "encode" /\ Println

(* decode *)

DecodeRead == xCmd.name = "decode" /\ ReadFile("try_from")

DecodeTryFrom == xCmd.name = "decode" /\ DecodePng("remove_first_chunk")

DecodeRemoveFirst == xCmd.name = "decode" /\ RemoveFirst("data_as_string")

\* println!("Hidden message: {}", chunk.data_as_string()?); Ok(())
DecodeDataAsString ==
    /\ xCmd.name = "decode"
    /\ xPc = "data_as_string"
    /\ IF DataAsStringOk(xChunk)
       THEN /\ xLog' = Append(xLog, "println")
            /\ Return("Ok")
       ELSE /\ xLog' = Append(xLog, "data_as_string_err")
            /\ Return("Err(FromUtf8Error)")
    /\ UNCHANGED <<xCmd, xDisk, xDisk0, xBytes, xPng, xType, xChunk,
                   typeVars, chunkVars, pngVars>>

(* remove *)

RemoveRead == xCmd.name = "remove" /\ ReadFile("try_from")

RemoveTryFrom == xCmd.name = "remove" /\ DecodePng("remove_first_chunk")

\* remove_first_chunk without the ? operator: its error is dropped and the
\* command goes on to write
RemoveRemoveFirstUnchecked ==
    /\ xCmd.name = "remove"
    /\ xPc = "remove_first_chunk"
    /\ LET r == PngRemoveFirstChunk(xPng, xCmd.chunk_type)
       IN  /\ xPng' = r.chunks
           /\ xChunk' = r.chunk
           /\ xLog' = Append(xLog, IF r.ok THEN "remove_ok" ELSE "remove_err")
    /\ xPc' = "write"
    /\ UNCHANGED <<xCmd, xDisk, xDisk0, xBytes, xType, xRet,
                   typeVars, chunkVars, pngVars>>

RemoveRemoveFirst == xCmd.name = "remove" /\ RemoveFirst("write")

\* fs::write(file, png.as_bytes())?
RemoveWrite == xCmd.name = "remove" /\ WriteFile(xCmd.file)

(* print *)

PrintRead == xCmd.name = "print" /\ ReadFile("try_from")

PrintTryFrom == xCmd.name = "print" /\ DecodePng("println")

PrintPrintln == xCmd.name = "print" /\ Println

CliNext ==
    \/ EncodeRead
    \/ EncodeTryFrom
    \/ EncodeFromStr
    \/ EncodeAppend
    \/ EncodeWrite
    \/ EncodePrintln
    \/ DecodeRead
    \/ DecodeTryFrom
    \/ DecodeRemoveFirst
    \/ DecodeDataAsString
    \/ RemoveRead
    \/ RemoveTryFrom
    \/ RemoveRemoveFirst
    \/ RemoveWrite
    \/ PrintRead
    \/ PrintTryFrom
    \/ PrintPrintln

SpecCli == CliInit /\ [][CliNext]_vars

----------------------------------------------------------------------------
(* Claims about ChunkType (SpecType) *)

AllFlags == {"critical", "public", "reserved", "safe", "valid"}

\* bit 5 (0x20) of a byte, read off the byte's value
Bit5Set(b) == (b % 64) >= 32

\* a string of exactly four chars, all ASCII letters
FourLetters(s) == Len(s) = 4 /\ \A i \in 1..4 : IsAsciiAlphabetic(s[i])

\* C5: from_str succeeds exactly on four ASCII letters and then equals
\* try_from of those four bytes; it fails with IncorrectLength when the
\* string has not exactly 4 characters and with NotAlpabetical when it has 4
\* characters one of which is no ASCII letter; try_from succeeds on every
\* four bytes and bytes() returns them unchanged.
C5_FromStrErrors ==
    /\ (tInput.kind = "str" /\ tResult # NoResult) =>
         /\ tResult.ok <=> FourLetters(tInput.v)
         /\ tResult.ok => tResult = ChunkTypeTryFrom(StrAsBytes(tInput.v))
         /\ Len(tInput.v) # 4 => tResult.err = "IncorrectLength"
         /\ (Len(tInput.v) = 4 /\ ~FourLetters(tInput.v))
              => tResult.err = "NotAlpabetical"
    /\ (tInput.kind = "bytes" /\ tResult # NoResult) =>
         /\ tResult.ok
         /\ tBytes # <<>> => tBytes = tInput.v

\* C6: every flag returned is the stated bit-5 test of its byte, and
\* is_valid is the reserved-bit test alone.
C6_Flags ==
    tResult.ok =>
        /\ "critical" \in DOMAIN tFlags =>
              (tFlags["critical"] <=> ~Bit5Set(tResult.v[1]))
        /\ "public" \in DOMAIN tFlags =>
              (tFlags["public"] <=> ~Bit5Set(tResult.v[2]))
        /\ "reserved" \in DOMAIN tFlags =>
              (tFlags["reserved"] <=> ~Bit5Set(tResult.v[3]))
        /\ "safe" \in DOMAIN tFlags =>
              (tFlags["safe"] <=> Bit5Set(tResult.v[4]))
        /\ "valid" \in DOMAIN tFlags =>
              (tFlags["valid"] <=> ~Bit5Set(tResult.v[3]))

\* all five methods have answered for the non-letter code FF 00 00 FF, which
\* is ancillary, public and safe to copy, and valid by its reserved bit alone
C6_Witness ==
    /\ tResult.ok
    /\ tResult.v = <<255, 0, 0, 255>>
    /\ DOMAIN tFlags = AllFlags
    /\ tFlags["valid"] /\ ~tFlags["critical"] /\ tFlags["safe"]

----------------------------------------------------------------------------
(* Claims about Chunk (SpecChunk) *)

\* C1: decoding the bytes as_bytes produced from Chunk::new(t, d) succeeds
\* and yields the same length, type code, data and crc.
C1_NewRoundTrip ==
    (cOp = "try_from_bytes" /\ cEncoded.built = "new") =>
        /\ cEncoded.c = ChunkNew(cInput.t, cInput.d)
        /\ cChunk.ok
        /\ cChunk.c.length = cEncoded.c.length
        /\ cChunk.c.chunk_type = cEncoded.c.chunk_type
        /\ cChunk.c.chunk_data = cEncoded.c.chunk_data
        /\ cChunk.c.crc = cEncoded.c.crc

\* a chunk new built from a non-letter type code and a payload of
\* MaxDataLen bytes has been encoded and decoded again
C1_Witness ==
    /\ cOp = "try_from_bytes"
    /\ cEncoded.built = "new"
    /\ cInput.t = <<255, 0, 83, 254>>
    /\ Len(cInput.d) = MaxDataLen
    /\ cChunk.ok
    /\ cChunk.c.chunk_data = cInput.d

\* C2: every Chunk, built by new or returned by try_from, has length equal
\* to the number of bytes of its data.
C2_LengthIsDataLen ==
    cChunk.ok => cChunk.c.length = AsU32(Len(cChunk.c.chunk_data))

\* the length field of a slice of at least 12 bytes exceeds the bytes the
\* slice has for the payload
DeclaresTooMuch(value) ==
    LET l == from_be_bytes(SubSeq(value, 1, 4))
    IN  l.hi > 0 \/ l.lo > Len(value) - 12

\* C3: try_from fails with InvalidLength on a slice of fewer than 12 bytes,
\* and with a length error on a slice whose length field exceeds the bytes
\* available for the payload; no Chunk is returned in either case.
C3_LengthValidated ==
    cOp = "try_from" =>
        /\ Len(cSlice) < 12 => (~cChunk.ok /\ cChunk.err = "InvalidLength")
        /\ (Len(cSlice) >= 12 /\ DeclaresTooMuch(cSlice))
              => (~cChunk.ok /\ cChunk.err = "InvalidLength")

\* C4: try_from returns a Chunk only if the big-endian value of the last 4
\* bytes is the CRC-32 of the type code bytes and the payload; otherwise it
\* returns InvalidCrc with got the supplied and expected the recomputed
\* value, which differ.  Every Chunk held has the CRC-32 of its type code
\* bytes followed by its data as crc.
C4_CrcGate ==
    /\ (cOp \in {"try_from", "try_from_bytes"} /\ Len(cSlice) >= 12) =>
          LET n        == Len(cSlice)
              supplied == from_be_bytes(SubSeq(cSlice, n - 3, n))
              computed == checksum(SubSeq(cSlice, 5, n - 4))
          IN  /\ cChunk.ok => supplied = computed
              /\ supplied # computed =>
                    /\ ~cChunk.ok
                    /\ cChunk.err = "InvalidCrc"
                    /\ cChunk.got = supplied
                    /\ cChunk.expected = computed
                    /\ cChunk.got # cChunk.expected
    /\ cChunk.ok =>
          cChunk.c.crc = checksum(cChunk.c.chunk_type \o cChunk.c.chunk_data)

\* try_from has refused a slice whose crc field is off by one, reporting
\* both values
C4_Witness ==
    /\ cOp = "try_from"
    /\ Len(cSlice) = 12 + MaxDataLen
    /\ ~cChunk.ok
    /\ cChunk.err = "InvalidCrc"
    /\ cChunk.expected = checksum(SubSeq(cSlice, 5, Len(cSlice) - 4))
    /\ to_be_bytes(cChunk.got)[4] = (to_be_bytes(cChunk.expected)[4] + 255) % 256

\* C10: as_bytes of a chunk try_from returned is the slice try_from was
\* given, byte for byte.
C10_EncodeInvertsDecode ==
    (cOp = "as_bytes" /\ cBuilt = "try_from") =>
        /\ cBytes = cSlice
        /\ SubSeq(cBytes, 1, 4) = to_be_bytes(cChunk.c.length)
        /\ SubSeq(cBytes, 5, 8) = cChunk.c.chunk_type
        /\ SubSeq(cBytes, 9, Len(cBytes) - 4) = cChunk.c.chunk_data
        /\ SubSeq(cBytes, Len(cBytes) - 3, Len(cBytes)) = to_be_bytes(cChunk.c.crc)

\* a slice from outside with a payload of MaxDataLen bytes was decoded and
\* encoded back
C10_Witness ==
    /\ cOp = "as_bytes"
    /\ cBuilt = "try_from"
    /\ cInput.kind = "slice"
    /\ cSlice = cInput.v
    /\ Len(cSlice) = 12 + MaxDataLen
    /\ cBytes = cSlice

----------------------------------------------------------------------------
(* Claims about the container (SpecPng) *)

\* the text t is the type code b as displayed: ASCII bytes as themselves,
\* the bytes that are no UTF-8 as U+FFFD
IsTextOf(t, b) ==
    /\ Len(t) = 4
    /\ \A i \in 1..4 : IF b[i] < 128 THEN t[i] = b[i] ELSE t[i] = 65533

\* the sequence s without its k-th item
Without(s, k) == [i \in 1..(Len(s) - 1) |-> IF i < k THEN s[i] ELSE s[i + 1]]

\* C7: remove_first_chunk(t) removes and returns the earliest chunk of type
\* t and leaves all others in order; with no chunk of type t it returns
\* ChunkNotFound and leaves the sequence unchanged.
C7_RemoveFirst ==
    pOp = "remove_first_chunk" =>
        LET hits == {i \in 1..Len(pBefore) : IsTextOf(pArg, pBefore[i].chunk_type)}
        IN  IF hits = {}
            THEN /\ ~pRemoved.ok
                 /\ pRemoved.err = "ChunkNotFound"
                 /\ pPng.chunks = pBefore
            ELSE LET k == CHOOSE i \in hits : \A j \in hits : i <= j
                 IN  /\ pRemoved.ok
                     /\ pRemoved.chunk = pBefore[k]
                     /\ pPng.chunks = Without(pBefore, k)

\* of three chunks the second and third were of the type asked for and held
\* different data; the second was removed, the first and third remain
C7_Witness ==
    /\ pOp = "remove_first_chunk"
    /\ Len(pBefore) = 3
    /\ ~IsTextOf(pArg, pBefore[1].chunk_type)
    /\ IsTextOf(pArg, pBefore[2].chunk_type)
    /\ IsTextOf(pArg, pBefore[3].chunk_type)
    /\ pBefore[2] # pBefore[3]
    /\ pRemoved.ok
    /\ pRemoved.chunk = pBefore[2]
    /\ pPng.chunks = <<pBefore[1], pBefore[3]>>

\* C8: as_bytes of the container try_from returned is the slice try_from was
\* given; the bare signature decodes to the empty container.
C8_ContainerRoundTrip ==
    /\ (pOp = "as_bytes" /\ pFresh) => pOut = pInput
    /\ (pOp = "try_from" /\ pInput = STANDARD_HEADER) =>
          (pPng.ok /\ pPng.chunks = <<>>)
    /\ (pOp = "as_bytes" /\ pFresh /\ pInput = STANDARD_HEADER) =>
          pOut = STANDARD_HEADER

\* a file of two different chunk records was decoded and encoded back
C8_Witness ==
    /\ pOp = "as_bytes"
    /\ pFresh
    /\ Len(pPng.chunks) = 2
    /\ pPng.chunks[1] # pPng.chunks[2]
    /\ Len(pPng.chunks[1].chunk_data) = 1
    /\ pOut = pInput

----------------------------------------------------------------------------
(* Claims about the commands (SpecCli) *)

\* the positions of the log that hold one of the events
At(events) == {i \in 1..Len(xLog) : xLog[i] \in events}

Writes    == At({"write_ok", "write_err"})
Decodes   == At({"try_from_ok", "try_from_err"})
Mutations == At({"append_chunk", "remove_ok"})
Failures  == At({"try_from_err", "from_str_err", "remove_err"})

\* the event e is in the log before position i
Before(e, i) == \E j \in 1..(i - 1) : xLog[j] = e

\* the file is written at most once and only after the decode, the type
\* code parse (encode) and the mutation succeeded; a failure of one of them
\* is returned and nothing is written; decode and print write nothing; at
\* most one mutation
C9_Ordering ==
    /\ Cardinality(Writes) <= 1
    /\ \A i \in Writes :
          /\ Before("try_from_ok", i)
          /\ xCmd.name = "encode" =>
                (Before("from_str_ok", i) /\ Before("append_chunk", i))
          /\ xCmd.name = "remove" => Before("remove_ok", i)
    /\ Failures # {} =>
          /\ Writes = {}
          /\ xDisk = xDisk0
          /\ xPc = "done"
          /\ xRet \notin {"running", "Ok"}
    /\ xCmd.name \in {"decode", "print"} => (Writes = {} /\ xDisk = xDisk0)
    /\ Cardinality(Mutations) <= 1
    /\ Cardinality(Decodes) <= 1

\* C9 as stated: the ordering, and every run of a command performs exactly
\* one container decode.
C9_ExactlyOneDecode ==
    /\ C9_Ordering
    /\ xPc = "done" => Cardinality(Decodes) = 1

\* C9 as amended: the ordering, and a run performs exactly one container
\* decode when the file was read and none when reading it failed.
C9_OneDecodePerRead ==
    /\ C9_Ordering
    /\ (xPc = "done" /\ At({"read_ok"}) # {}) => Cardinality(Decodes) = 1
    /\ (xPc = "done" /\ At({"read_err"}) # {}) =>
          (Decodes = {} /\ Writes = {} /\ xRet = "Err(io)")

\* remove has decoded the file, removed a chunk and written the file once
C9_Witness ==
    /\ xCmd.name = "remove"
    /\ xPc = "done"
    /\ xRet = "Ok"
    /\ xLog = <<"read_ok", "try_from_ok", "remove_ok", "write_ok">>
    /\ xDisk["in.png"] = File(STANDARD_HEADER)
    /\ xDisk0["in.png"] # xDisk["in.png"]

====
